---- MODULE Spec2Model ----
(***************************************************************************)
(* Article Tracker (src/main.py): a store of daily article counts per      *)
(* diary, kept in a flat text file, with weekday averages, coefficient of  *)
(* variation, interquartile range and mode used to classify a new count.   *)
(*                                                                         *)
(* Text is a sequence of one-character strings.  A calendar date is its    *)
(* proleptic Gregorian ordinal (datetime.date.toordinal).  A Python dict   *)
(* is a sequence of entries in insertion order.  A float that the code     *)
(* computes from small integers is kept as an exact fraction; comparisons  *)
(* are cross-multiplied.                                                   *)
(***************************************************************************)
EXTENDS Integers, Sequences, FiniteSets, TLC

------------------------------------------------------------------------------
(* Bounds of the model. *)

\* Number of midnights that may pass while the application is observed.
MaxDays == 1
\* Longest sample handed to the statistics functions on their own.
MaxLen == 5

------------------------------------------------------------------------------
(* State *)

VARIABLES
    historical_data,  \* the store
    file,             \* the backing file, article_data.txt
    summary_label,    \* what the summary label shows
    dialogs,          \* the message boxes the last handler showed, in order
    now,              \* datetime.now().date()
    sample,           \* a list handed to a statistics function on its own
    value,            \* the count handed over with it
    outcome           \* what the function returned

vars == <<historical_data, file, summary_label, dialogs, now, sample, value, outcome>>

app == <<historical_data, file, summary_label, dialogs, now>>

stats == <<sample, value, outcome>>

------------------------------------------------------------------------------
(* Text *)

DigitChars == <<"0", "1", "2", "3", "4", "5", "6", "7", "8", "9">>

IsDigit(c) == \E i \in 1..10 : DigitChars[i] = c

DigitVal(c) == (CHOOSE i \in 1..10 : DigitChars[i] = c) - 1

IsSpace(c) == c = " "

RECURSIVE LStrip(_)
LStrip(s) == IF s # <<>> /\ IsSpace(Head(s)) THEN LStrip(Tail(s)) ELSE s

RECURSIVE RStrip(_)
RStrip(s) ==
    IF s # <<>> /\ IsSpace(s[Len(s)]) THEN RStrip(SubSeq(s, 1, Len(s) - 1)) ELSE s

\* str.strip(): leading and trailing whitespace removed.
Strip(s) == RStrip(LStrip(s))

\* str.split(','): the fields between the commas; always at least one field.
RECURSIVE SplitFrom(_, _, _)
SplitFrom(s, i, cur) ==
    IF i > Len(s) THEN <<cur>>
    ELSE IF s[i] = "," THEN <<cur>> \o SplitFrom(s, i + 1, <<>>)
    ELSE SplitFrom(s, i + 1, Append(cur, s[i]))

Split(s) == SplitFrom(s, 1, <<>>)

AllDigits(s) == \A i \in 1..Len(s) : IsDigit(s[i])

RECURSIVE DigitsVal(_)
DigitsVal(s) ==
    IF s = <<>> THEN 0 ELSE 10 * DigitsVal(SubSeq(s, 1, Len(s) - 1)) + DigitVal(s[Len(s)])

RECURSIVE NatStr(_)
NatStr(n) == IF n < 10 THEN <<DigitChars[n + 1]>> ELSE Append(NatStr(n \div 10), DigitChars[(n % 10) + 1])

\* str(int) as an f-string writes it.
IntStr(n) == IF n < 0 THEN <<"-">> \o NatStr(-n) ELSE NatStr(n)

RECURSIVE ZeroPad(_, _)
ZeroPad(s, w) == IF Len(s) >= w THEN s ELSE ZeroPad(<<"0">> \o s, w)

\* int(text): surrounding whitespace, an optional sign, then digits.
IntBody(s) == IF s # <<>> /\ Head(s) \in {"-", "+"} THEN Tail(s) ELSE s

IntOk(s) == LET t == IntBody(Strip(s)) IN t # <<>> /\ AllDigits(t)

IntVal(s) ==
    LET t == Strip(s)
    IN  IF Head(t) = "-" THEN -DigitsVal(IntBody(t)) ELSE DigitsVal(IntBody(t))

------------------------------------------------------------------------------
(* Calendar: datetime.date as its ordinal *)

IsLeap(y) == y % 4 = 0 /\ (y % 100 # 0 \/ y % 400 = 0)

DaysInMonth(y, m) ==
    IF m = 2 THEN (IF IsLeap(y) THEN 29 ELSE 28)
    ELSE IF m \in {4, 6, 9, 11} THEN 30 ELSE 31

RECURSIVE DaysBeforeMonth(_, _)
DaysBeforeMonth(y, m) == IF m = 1 THEN 0 ELSE DaysBeforeMonth(y, m - 1) + DaysInMonth(y, m - 1)

DaysBeforeYear(y) ==
    LET p == y - 1 IN p * 365 + (p \div 4) - (p \div 100) + (p \div 400)

Ymd2Ord(y, m, d) == DaysBeforeYear(y) + DaysBeforeMonth(y, m) + d

RECURSIVE MonthOf(_, _, _)
MonthOf(y, m, n) == IF n < DaysInMonth(y, m) THEN <<m, n + 1>> ELSE MonthOf(y, m + 1, n - DaysInMonth(y, m))

\* The (year, month, day) of an ordinal.
Ord2Ymd(ord) ==
    LET n0 == ord - 1
        n400 == n0 \div 146097
        r400 == n0 % 146097
        n100 == r400 \div 36524
        r100 == r400 % 36524
        n4 == r100 \div 1461
        r4 == r100 % 1461
        n1 == r4 \div 365
        r1 == r4 % 365
        y == n400 * 400 + n100 * 100 + n4 * 4 + n1 + 1
    IN  IF n1 = 4 \/ n100 = 4 THEN <<y - 1, 12, 31>>
        ELSE LET md == MonthOf(y, 1, r1) IN <<y, md[1], md[2]>>

\* date.weekday(): Monday is 0.
Weekday(ord) == (ord + 6) % 7

\* date.strftime('%Y-%m-%d') for a year of four digits.
FormatDate(ord) ==
    LET ymd == Ord2Ymd(ord)
    IN  ZeroPad(NatStr(ymd[1]), 4) \o <<"-">> \o ZeroPad(NatStr(ymd[2]), 2)
            \o <<"-">> \o ZeroPad(NatStr(ymd[3]), 2)

\* datetime.strptime(text, "%Y-%m-%d"): four digits, then one or two digits
\* twice, separated by '-', nothing else, and a day that exists.
DateParts(s) ==
    LET dash == {i \in 1..Len(s) : s[i] = "-"}
    IN  IF Cardinality(dash) # 2 THEN <<>>
        ELSE LET i == CHOOSE i \in dash : \A j \in dash : i <= j
                 j == CHOOSE j \in dash : \A k \in dash : k <= j
             IN  <<SubSeq(s, 1, i - 1), SubSeq(s, i + 1, j - 1), SubSeq(s, j + 1, Len(s))>>

DateOk(s) ==
    LET p == DateParts(s)
    IN  /\ p # <<>>
        /\ Len(p[1]) = 4 /\ AllDigits(p[1])
        /\ Len(p[2]) \in {1, 2} /\ AllDigits(p[2])
        /\ Len(p[3]) \in {1, 2} /\ AllDigits(p[3])
        /\ DigitsVal(p[1]) >= 1
        /\ DigitsVal(p[2]) \in 1..12
        /\ DigitsVal(p[3]) \in 1..DaysInMonth(DigitsVal(p[1]), DigitsVal(p[2]))

DateVal(s) ==
    LET p == DateParts(s) IN Ymd2Ord(DigitsVal(p[1]), DigitsVal(p[2]), DigitsVal(p[3]))

------------------------------------------------------------------------------
(* The record store: historical_data, {date: {diary_name: count}} *)

\* A dict of dicts, each in insertion order.
EmptyData == <<>>

DateIndex(h, date) == {i \in 1..Len(h) : h[i].date = date}

DiaryIndex(ds, name) == {j \in 1..Len(ds) : ds[j].name = name}

\* `date in historical_data and diary_name in historical_data[date]`
HasRecord(h, date, name) ==
    \E i \in DateIndex(h, date) : DiaryIndex(h[i].diaries, name) # {}

\* `historical_data[date][diary_name]` of a record that exists.
GetRecord(h, date, name) ==
    LET i == CHOOSE i \in DateIndex(h, date) : DiaryIndex(h[i].diaries, name) # {}
        j == CHOOSE j \in DiaryIndex(h[i].diaries, name) : TRUE
    IN  h[i].diaries[j].count

\* `d[name] = count` on one inner dict: an existing key keeps its place.
SetDiary(ds, name, count) ==
    IF DiaryIndex(ds, name) # {}
    THEN [j \in 1..Len(ds) |-> IF ds[j].name = name THEN [ds[j] EXCEPT !.count = count] ELSE ds[j]]
    ELSE Append(ds, [name |-> name, count |-> count])

\* As SetRecord, but the date's inner dict is replaced by one holding the new
\* entry alone.
SetRecord_replace(h, date, name, count) ==
    IF DateIndex(h, date) # {}
    THEN [i \in 1..Len(h) |->
            IF h[i].date = date
            THEN [h[i] EXCEPT !.diaries = SetDiary(<<>>, name, count)]
            ELSE h[i]]
    ELSE Append(h, [date |-> date, diaries |-> SetDiary(<<>>, name, count)])

\* `historical_data[date][diary_name] = count` on the defaultdict.
SetRecord(h, date, name, count) ==
    IF DateIndex(h, date) # {}
    THEN [i \in 1..Len(h) |->
            IF h[i].date = date
            THEN [h[i] EXCEPT !.diaries = SetDiary(h[i].diaries, name, count)]
            ELSE h[i]]
    ELSE Append(h, [date |-> date, diaries |-> SetDiary(<<>>, name, count)])

\* The (date, diary, count) triples in the order a nested loop over the
\* store's items visits them.
RECURSIVE Triples(_)
Triples(h) ==
    IF h = <<>> THEN <<>>
    ELSE [j \in 1..Len(Head(h).diaries) |->
              [date |-> Head(h).date, name |-> Head(h).diaries[j].name,
               count |-> Head(h).diaries[j].count]]
         \o Triples(Tail(h))

NumRecords(h) == Len(Triples(h))

------------------------------------------------------------------------------
(* Message boxes and the backing file *)

Box(kind, title, text, args) == [box |-> kind, title |-> title, text |-> text, args |-> args]

\* The backing file: absent, or its lines (each ended by a newline).
NoFile == [exists |-> FALSE, lines |-> <<>>]

FileOf(lines) == [exists |-> TRUE, lines |-> lines]

\* One parsed line of load_data_from_file: split into exactly three fields,
\* the date by strptime, the count by int.
LineOk(line) ==
    LET f == Split(Strip(line))
    IN  Len(f) = 3 /\ DateOk(f[1]) /\ IntOk(f[2])

LineRecord(line) ==
    LET f == Split(Strip(line))
    IN  [date |-> DateVal(f[1]), name |-> f[3], count |-> IntVal(f[2])]

\* The loop of load_data_from_file over the lines from the i-th on: the
\* first line that raises ends the loop, the records read so far stay.
RECURSIVE LoadLines(_, _, _)
LoadLines(lines, i, h) ==
    IF i > Len(lines) THEN [data |-> h, dialogs |-> <<>>]
    ELSE IF ~LineOk(lines[i])
         THEN [data |-> h,
               dialogs |-> <<Box("showerror", "Error", "Failed to load data from file", <<i>>)>>]
         ELSE LET r == LineRecord(lines[i])
              IN  LoadLines(lines, i + 1, SetRecord(h, r.date, r.name, r.count))

load_data_from_file(f) ==
    IF ~f.exists
    THEN [data |-> EmptyData,
          dialogs |-> <<Box("showerror", "Error", "File not found", <<>>)>>]
    ELSE LoadLines(f.lines, 1, EmptyData)

\* The line submit_data writes for one record.
FormatLine(t) == FormatDate(t.date) \o <<",">> \o IntStr(t.count) \o <<",">> \o t.name

\* As SaveFile, but the file is opened with 'a': what it held stays.
SaveFile_append(h) ==
    LET ts == Triples(h) IN FileOf(file.lines \o [k \in 1..Len(ts) |-> FormatLine(ts[k])])

\* The save step of submit_data: the file opened with 'w' and one line
\* written per record.
SaveFile(h) == LET ts == Triples(h) IN FileOf([k \in 1..Len(ts) |-> FormatLine(ts[k])])

------------------------------------------------------------------------------
(* Numbers *)

\* The trailing window of calculate_weekday_averages and submit_data, in days.
WindowDays == 180
\* The number of days get_last_week_summary lists.
WeekDays == 7

\* The fraction num/den, den > 0: a float the code computes by one division.
Frac(num, den) == [num |-> num, den |-> den]

RECURSIVE Sum(_)
Sum(s) == IF s = <<>> THEN 0 ELSE Head(s) + Sum(Tail(s))

RECURSIVE SumSq(_)
SumSq(s) == IF s = <<>> THEN 0 ELSE Head(s) * Head(s) + SumSq(Tail(s))

\* f"{x:.2f}" of a fraction, in hundredths: round to nearest, ties to even.
Fmt2(f) ==
    LET n == 100 * f.num
        q == n \div f.den
        r == n - q * f.den
    IN  IF 2 * r < f.den THEN q
        ELSE IF 2 * r > f.den THEN q + 1
        ELSE IF q % 2 = 0 THEN q ELSE q + 1

\* h rounds 100 * sqrt(num/den) from below or is under it: (h - 1/2)^2 <= 10^4 num/den.
RoundOk(h, num, den) == h = 0 \/ (2 * h - 1) * (2 * h - 1) <= (40000 * num) \div den

RECURSIVE Grow(_, _, _)
Grow(hi, num, den) == IF RoundOk(hi, num, den) THEN Grow(2 * hi, num, den) ELSE hi

RECURSIVE Bisect(_, _, _, _)
Bisect(lo, hi, num, den) ==
    IF hi - lo <= 1 THEN lo
    ELSE LET mid == (lo + hi) \div 2
         IN  IF RoundOk(mid, num, den) THEN Bisect(mid, hi, num, den) ELSE Bisect(lo, mid, num, den)

\* f"{x:.2f}" of sign * sqrt(num/den), in hundredths.
Fmt2Root(c) == c.sign * Bisect(0, Grow(1, c.num, c.den), c.num, c.den)

RECURSIVE Insert(_, _)
Insert(x, s) ==
    IF s = <<>> THEN <<x>>
    ELSE IF x <= Head(s) THEN <<x>> \o s ELSE <<Head(s)>> \o Insert(x, Tail(s))

RECURSIVE Sorted(_)
Sorted(s) == IF s = <<>> THEN <<>> ELSE Insert(Head(s), Sorted(Tail(s)))

------------------------------------------------------------------------------
(* Statistics *)

\* The window's first day.
six_months_ago(t) == t - WindowDays

\* As InWindow, but the window's first day is left out.
InWindow_strict(r, t, diary_name) == r.date > six_months_ago(t) /\ r.name = diary_name

\* Whether a record of the store is one the six-month loops keep.
InWindow(r, t, diary_name) == r.date >= six_months_ago(t) /\ r.name = diary_name

RECURSIVE Keep(_, _, _)
Keep(ts, t, diary_name) ==
    IF ts = <<>> THEN <<>>
    ELSE (IF InWindow(Head(ts), t, diary_name) THEN <<Head(ts)>> ELSE <<>>)
         \o Keep(Tail(ts), t, diary_name)

RECURSIVE OnWeekday(_, _)
OnWeekday(ts, w) ==
    IF ts = <<>> THEN <<>>
    ELSE (IF Weekday(Head(ts).date) = w THEN <<Head(ts).count>> ELSE <<>>)
         \o OnWeekday(Tail(ts), w)

\* weekday_data: the counts appended per weekday, in the store's order.
weekday_data(h, t, diary_name) ==
    [w \in 0..6 |-> OnWeekday(Keep(Triples(h), t, diary_name), w)]

\* The dict calculate_weekday_averages returns: a key per weekday that has
\* counts, its value their sum over their number.
calculate_weekday_averages(h, t, diary_name) ==
    LET wd == weekday_data(h, t, diary_name)
        keys == {w \in 0..6 : wd[w] # <<>>}
    IN  [keys |-> keys, avg |-> [w \in keys |-> Frac(Sum(wd[w]), Len(wd[w]))]]

\* weekday_averages.get(w, 0)
GetAverage(avgs, w) == IF w \in avgs.keys THEN avgs.avg[w] ELSE Frac(0, 1)

\* As Under80, but with <= for <.
Under80_le(count, average) == 5 * count * average.den <= 4 * average.num

\* count < 0.8 * average
Under80(count, average) == 5 * count * average.den < 4 * average.num

\* count > average
Above(count, average) == count * average.den > average.num

\* The if / elif / else of check_article_count.
Classify(count, average) ==
    IF Under80(count, average) THEN "under 80% of the average"
    ELSE IF Above(count, average) THEN "above the average"
    ELSE "within 80% of the average"

check_article_count(h, t, today, diary_name, count) ==
    LET average == GetAverage(calculate_weekday_averages(h, t, diary_name), Weekday(today))
    IN  [status |-> Classify(count, average), average |-> average]

\* A coefficient of variation: sign * sqrt(num/den).
Root(sign, num, den) == [sign |-> sign, num |-> num, den |-> den]

\* stdev / mean with stdev the square root of the sum of squared deviations
\* over n - 1: its square is n (n Q - S^2) / ((n - 1) S^2), S the sum and Q
\* the sum of squares.
calculate_coefficient_of_variation(data) ==
    LET n == Len(data)
        S == Sum(data)
        dev == n * SumSq(data) - S * S
    IN  IF n < 2 THEN Root(0, 0, 1)
        ELSE IF S = 0 THEN Root(0, 0, 1)
        ELSE Root(IF dev = 0 THEN 0 ELSE IF S > 0 THEN 1 ELSE -1, n * dev, (n - 1) * S * S)

\* As HighVariation, but with >= for >.
HighVariation_ge(c) == c.sign = 1 /\ 25 * c.num >= c.den

\* coef_variation > 0.2
HighVariation(c) == c.sign = 1 /\ 25 * c.num > c.den

\* np.percentile(data, 25 * k): linear interpolation between the closest
\* ranks of the sorted data, at position (n - 1) * k / 4.
Percentile(data, k) ==
    LET a == Sorted(data)
        pos == (Len(a) - 1) * k
        lo == pos \div 4
        r == pos % 4
    IN  IF r = 0 THEN Frac(4 * a[lo + 1], 4)
        ELSE Frac(a[lo + 1] * (4 - r) + a[lo + 2] * r, 4)

calculate_interquartile_range(data) ==
    IF Len(data) < 4 THEN [q1 |-> Frac(0, 1), q3 |-> Frac(0, 1), iqr |-> Frac(0, 1)]
    ELSE LET q1 == Percentile(data, 1)
             q3 == Percentile(data, 3)
         IN  [q1 |-> q1, q3 |-> q3, iqr |-> Frac(q3.num - q1.num, 4)]

\* Counter(data): the distinct values in order of first occurrence, each
\* with the number of its occurrences.
RECURSIVE Counter(_, _)
Counter(data, seen) ==
    IF data = <<>> THEN <<>>
    ELSE IF Head(data) \in seen THEN Counter(Tail(data), seen)
    ELSE <<[value |-> Head(data),
            n |-> Cardinality({i \in 1..Len(data) : data[i] = Head(data)})]>>
         \o Counter(Tail(data), seen \cup {Head(data)})

\* As MostCommon, but the last of the most frequent entries wins.
RECURSIVE MostCommon_last(_, _)
MostCommon_last(freq, best) ==
    IF freq = <<>> THEN best
    ELSE MostCommon_last(Tail(freq), IF Head(freq).n >= best.n THEN Head(freq) ELSE best)

\* most_common(1)[0]: the first entry no other entry exceeds.
RECURSIVE MostCommon(_, _)
MostCommon(freq, best) ==
    IF freq = <<>> THEN best
    ELSE MostCommon(Tail(freq), IF Head(freq).n > best.n THEN Head(freq) ELSE best)

check_frequency_distribution(data, count) ==
    LET freq_dist == Counter(data, {})
        most_common_count == MostCommon(Tail(freq_dist), Head(freq_dist)).value
    IN  [matches |-> count = most_common_count, most_common_count |-> most_common_count]

------------------------------------------------------------------------------
(* The application *)

\* The day the application is first started: Monday 2024-07-01.
Today0 == Ymd2Ord(2024, 7, 1)

\* Dates the date picker is set to: the first day of the window (a
\* Wednesday, outside the window after midnight) and the Wednesday after
\* today.
DateChoices == {Today0 - WindowDays, Today0 + 2}

\* Texts typed as the diary name (the empty text is refused).
DiaryChoices == {<<"a">>, <<"a", " ">>, <<>>}

\* Texts typed as the number of articles ("x" is refused).
CountChoices == {<<"-", "1">>, <<"6">>, <<"x">>}

\* Contents the backing file may have when the application first starts.
InitialFiles ==
    { NoFile,
      FileOf(<<>>),
      FileOf(<<FormatLine([date |-> Today0 - WindowDays, name |-> <<"a">>, count |-> -1]),
               FormatLine([date |-> Today0 + 2, name |-> <<"a">>, count |-> 6])>>),
      FileOf(<<FormatLine([date |-> Today0 + 2, name |-> <<"a">>, count |-> 6]),
               <<"o", "o", "p", "s">>,
               FormatLine([date |-> Today0 - WindowDays, name |-> <<"a">>, count |-> 6])>>),
      FileOf(<<<<" ">> \o FormatDate(Today0 + 2) \o <<",", " ", "-", "1", ",", "a", " ">>,
               <<"2", "0", "2", "4", "-", "0", "2", "-", "3", "0", ",", "6", ",", "a">>>>),
      FileOf(<<FormatDate(Today0 + 2) \o <<",", "x", ",", "a">>>>) }

\* The label before the first submission.
EmptyLabel ==
    [shown |-> FALSE, date |-> 0, diary |-> <<>>, count |-> 0, average |-> 0,
     status |-> "", cv |-> <<>>]

\* six_months_data of submit_data: the diary's counts in the window, in the
\* store's order.
six_months_data(h, t, diary_name) ==
    LET ts == Keep(Triples(h), t, diary_name) IN [k \in 1..Len(ts) |-> ts[k].count]

\* Phases 2 and 3 of submit_data: the message box shown for a non-empty sample.
Analysis(data, article_count) ==
    IF HighVariation(calculate_coefficient_of_variation(data))
    THEN LET q == calculate_interquartile_range(data)
         IN  IF article_count * q.q1.den < q.q1.num
             THEN <<Box("showinfo", "Result", "below the first quartile", <<Fmt2(q.q1)>>)>>
             ELSE <<Box("showinfo", "Result", "within the interquartile range",
                        <<Fmt2(q.q1), Fmt2(q.q3)>>)>>
    ELSE LET m == check_frequency_distribution(data, article_count)
         IN  IF m.matches
             THEN <<Box("showinfo", "Result", "matches the most frequent category",
                        <<m.most_common_count>>)>>
             ELSE <<Box("showinfo", "Result", "does not match the most frequent category",
                        <<m.most_common_count>>)>>

\* get_last_week_summary: the date and the six days before it, latest first.
get_last_week_summary(h, date, diary_name) ==
    [i \in 1..WeekDays |->
        LET day == date - (i - 1)
        IN  <<day, IF HasRecord(h, day, diary_name) THEN GetRecord(h, day, diary_name) ELSE 0>>]

\* add_article_count: the store after the assignment.
add_article_count(h, date, diary_name, count) == SetRecord(h, date, diary_name, count)

\* As Label, but the count is classified before add_article_count stores it.
Label_stale(h, t, date, diary_name, article_count) ==
    LET chk == check_article_count(historical_data, t, date, diary_name, article_count)
        data == six_months_data(h, t, diary_name)
    IN  [shown |-> TRUE, date |-> date, diary |-> diary_name, count |-> article_count,
         average |-> Fmt2(chk.average), status |-> chk.status,
         cv |-> IF Len(data) > 0
                THEN <<Fmt2Root(calculate_coefficient_of_variation(data))>>
                ELSE <<>>]

\* The label submit_data sets, and then extends when the sample is not empty.
Label(h, t, date, diary_name, article_count) ==
    LET chk == check_article_count(h, t, date, diary_name, article_count)
        data == six_months_data(h, t, diary_name)
    IN  [shown |-> TRUE, date |-> date, diary |-> diary_name, count |-> article_count,
         average |-> Fmt2(chk.average), status |-> chk.status,
         cv |-> IF Len(data) > 0
                THEN <<Fmt2Root(calculate_coefficient_of_variation(data))>>
                ELSE <<>>]

\* As Boxes, but a sample of one value is not analysed.
Boxes_min2(h, t, date, diary_name, article_count) ==
    LET data == six_months_data(h, t, diary_name)
    IN  <<Box("showinfo", "Success", "updated", <<date, diary_name, article_count>>)>>
        \o (IF Len(data) > 1 THEN Analysis(data, article_count) ELSE <<>>)
        \o <<Box("showinfo", "Last Week Summary", "summary",
                 get_last_week_summary(h, date, diary_name))>>

\* The message boxes of a submission that passes validation, in order.
Boxes(h, t, date, diary_name, article_count) ==
    LET data == six_months_data(h, t, diary_name)
    IN  <<Box("showinfo", "Success", "updated", <<date, diary_name, article_count>>)>>
        \o (IF Len(data) > 0 THEN Analysis(data, article_count) ELSE <<>>)
        \o <<Box("showinfo", "Last Week Summary", "summary",
                 get_last_week_summary(h, date, diary_name))>>

\* submit_data with the date picker at `date` and the two entries holding
\* the texts `diary_name` and `article_count_str`.
submit_data(date, diary_name, article_count_str) ==
    IF ~IntOk(article_count_str)
    THEN /\ dialogs' = <<Box("showerror", "Input Error", "Please enter a valid article count.", <<>>)>>
         /\ UNCHANGED <<historical_data, file, summary_label, now>>
    ELSE IF diary_name = <<>>
    THEN /\ dialogs' = <<Box("showerror", "Input Error", "Please enter a valid diary name.", <<>>)>>
         /\ UNCHANGED <<historical_data, file, summary_label, now>>
    ELSE LET article_count == IntVal(article_count_str)
             h == add_article_count(historical_data, date, diary_name, article_count)
         IN  /\ historical_data' = h
             /\ summary_label' = Label(h, now, date, diary_name, article_count)
             /\ dialogs' = Boxes(h, now, date, diary_name, article_count)
             /\ file' = SaveFile(h)
             /\ UNCHANGED now

Submit ==
    /\ \E date \in DateChoices, d \in DiaryChoices, c \in CountChoices : submit_data(date, d, c)
    /\ UNCHANGED stats

\* show_averages with the diary entry holding `diary_name`.
show_averages(diary_name) ==
    /\ dialogs' =
          IF diary_name = <<>>
          THEN <<Box("showerror", "Input Error", "Please enter a valid diary name.", <<>>)>>
          ELSE LET avgs == calculate_weekday_averages(historical_data, now, diary_name)
               IN  <<Box("showinfo", "Weekday Averages", diary_name,
                         [i \in 1..7 |-> Fmt2(GetAverage(avgs, i - 1))])>>
    /\ UNCHANGED <<historical_data, file, summary_label, now>>

ShowAverages ==
    /\ \E d \in DiaryChoices : show_averages(d)
    /\ UNCHANGED stats

\* The application is closed and run_app starts it again on the same file.
run_app ==
    /\ historical_data' = load_data_from_file(file).data
    /\ dialogs' = load_data_from_file(file).dialogs
    /\ summary_label' = EmptyLabel
    /\ UNCHANGED <<file, now>>
    /\ UNCHANGED stats

\* Midnight passes.
Midnight ==
    /\ now < Today0 + MaxDays
    /\ now' = now + 1
    /\ UNCHANGED <<historical_data, file, summary_label, dialogs>>
    /\ UNCHANGED stats

\* No statistics function has been called on its own.
NoOutcome == [fn |-> "none", out |-> <<>>]

Init ==
    /\ file \in InitialFiles
    /\ historical_data = load_data_from_file(file).data
    /\ dialogs = load_data_from_file(file).dialogs
    /\ summary_label = EmptyLabel
    /\ now = Today0
    /\ sample = <<>>
    /\ value = 0
    /\ outcome = NoOutcome

Next == Submit \/ ShowAverages \/ run_app \/ Midnight

Spec == Init /\ [][Next]_vars

------------------------------------------------------------------------------
(* The statistics functions on their own *)

\* Counts a sample is drawn from.
Values == {-1, 0, 4, 5, 6}

RECURSIVE Lists(_)
Lists(n) ==
    IF n = 0 THEN {<<>>}
    ELSE Lists(n - 1) \cup {Append(s, v) : s \in {t \in Lists(n - 1) : Len(t) = n - 1}, v \in Values}

\* The average check_article_count gets for a weekday whose counts are
\* `counts`: their mean, or the default 0 of .get when there are none.
AverageOf(counts) == IF counts = <<>> THEN Frac(0, 1) ELSE Frac(Sum(counts), Len(counts))

Outcome(fn, x) == [fn |-> fn, out |-> <<x>>]

CallVariation ==
    /\ outcome' = Outcome("calculate_coefficient_of_variation",
                          calculate_coefficient_of_variation(sample))
    /\ UNCHANGED <<sample, value>>
    /\ UNCHANGED app

CallQuartiles ==
    /\ outcome' = Outcome("calculate_interquartile_range", calculate_interquartile_range(sample))
    /\ UNCHANGED <<sample, value>>
    /\ UNCHANGED app

\* most_common(1)[0] raises on an empty list; submit_data calls the function
\* with a non-empty one only.
CallFrequency ==
    /\ sample # <<>>
    /\ outcome' = Outcome("check_frequency_distribution",
                          check_frequency_distribution(sample, value))
    /\ UNCHANGED <<sample, value>>
    /\ UNCHANGED app

CallClassify ==
    /\ outcome' = Outcome("check_article_count", Classify(value, AverageOf(sample)))
    /\ UNCHANGED <<sample, value>>
    /\ UNCHANGED app

CallAnalysis ==
    /\ sample # <<>>
    /\ outcome' = [fn |-> "submit_data", out |-> Analysis(sample, value)]
    /\ UNCHANGED <<sample, value>>
    /\ UNCHANGED app

InitStats ==
    /\ sample \in Lists(MaxLen)
    /\ value \in Values
    /\ outcome = NoOutcome
    /\ historical_data = EmptyData
    /\ file = NoFile
    /\ summary_label = EmptyLabel
    /\ dialogs = <<>>
    /\ now = Today0

NextStats == CallVariation \/ CallQuartiles \/ CallFrequency \/ CallClassify \/ CallAnalysis

SpecStats == InitStats /\ [][NextStats]_vars

------------------------------------------------------------------------------
(* Properties *)

\* The store as a set of (date, diary, count) triples.
AsMap(h) == {Triples(h)[k] : k \in 1..Len(Triples(h))}

\* No (date, diary) pair occurs twice in the store.
UniqueKeys(h) ==
    LET ts == Triples(h)
    IN  \A i, j \in 1..Len(ts) : (ts[i].date = ts[j].date /\ ts[i].name = ts[j].name) => i = j

\* The mapping with the count at (date, name) set and nothing else changed.
Upsert(m, date, name, count) ==
    {t \in m : ~(t.date = date /\ t.name = name)}
        \cup {[date |-> date, name |-> name, count |-> count]}

RECURSIVE SumCounts(_)
SumCounts(m) ==
    IF m = {} THEN 0 ELSE LET t == CHOOSE t \in m : TRUE IN t.count + SumCounts(m \ {t})

\* The last handler was a submission that passed validation: its first
\* message box is the one add_article_count shows, which names the date, the
\* diary and the count.
LastSubmit == dialogs # <<>> /\ dialogs[1].title = "Success"

\* The last handler was a load that failed.
LoadFailed == dialogs # <<>> /\ dialogs[1].title = "Error"

ValidDiaries == DiaryChoices \ {<<>>}

NoComma(name) == \A i \in 1..Len(name) : name[i] # ","

Statuses == {"under 80% of the average", "above the average", "within 80% of the average"}

\* C1: for a non-empty store whose diary names hold no comma, loading the
\* file that the save step writes gives back the same (date, diary) -> count
\* mapping.
C1_RoundTrip ==
    (historical_data # EmptyData /\ \A t \in AsMap(historical_data) : NoComma(t.name))
        => AsMap(load_data_from_file(SaveFile(historical_data)).data) = AsMap(historical_data)

\* C2: when load_data_from_file has failed, the store is empty.
C2_LoadFailureEmpties == LoadFailed => historical_data = EmptyData

\* C3: a submission that passes validation sets the count at its (date,
\* diary), leaves every other entry of the store as it was, and the store
\* holds no pair twice.
C3_AddFrame ==
    [][LastSubmit' =>
          /\ AsMap(historical_data') =
                Upsert(AsMap(historical_data), dialogs'[1].args[1], dialogs'[1].args[2],
                       dialogs'[1].args[3])
          /\ UniqueKeys(historical_data')]_vars

\* An entry that was in the store before has just been overwritten in place,
\* beside another diary of the same date.
C3_Witness ==
    /\ LastSubmit
    /\ \E i \in 1..Len(historical_data) :
          /\ historical_data[i].date = dialogs[1].args[1]
          /\ Len(historical_data[i].diaries) = 2
          /\ historical_data[i].diaries[1].name = dialogs[1].args[2]
          /\ historical_data[i].diaries[1].count = dialogs[1].args[3]
          /\ historical_data[i].diaries[2].count # dialogs[1].args[3]

\* C4: after a submission that passed validation the file exists and holds
\* exactly one line per record of the store, and no other line.
C4_FileIsStore ==
    LastSubmit =>
        /\ file.exists
        /\ Len(file.lines) = NumRecords(historical_data)
        /\ \A t \in AsMap(historical_data) :
              Cardinality({k \in 1..Len(file.lines) : file.lines[k] = FormatLine(t)}) = 1
        /\ \A k \in 1..Len(file.lines) :
              \E t \in AsMap(historical_data) : file.lines[k] = FormatLine(t)

\* A submission has rewritten a file of several records, one of them with a
\* negative count.
C4_Witness ==
    /\ LastSubmit
    /\ Len(file.lines) >= 3
    /\ \E t \in AsMap(historical_data) : t.count < 0

\* C5: the average of every weekday, for every diary, is the mean of the
\* counts of the diary's records on that weekday dated on or after today
\* minus 180 days (later dates included), and 0 when there is none.
C5_WeekdayAverages ==
    \A d \in ValidDiaries, w \in 0..6 :
        LET Q == {t \in AsMap(historical_data) :
                      t.name = d /\ Weekday(t.date) = w /\ t.date >= now - WindowDays}
            a == GetAverage(calculate_weekday_averages(historical_data, now, d), w)
        IN  IF Q = {} THEN a.num = 0
            ELSE a.num * Cardinality(Q) = SumCounts(Q) * a.den

\* The averages of a diary are shown: 2.50 for Wednesday, from the record on
\* the window's first day and the one dated after today, and 0.00 for Monday.
C5_Witness ==
    /\ dialogs # <<>>
    /\ dialogs[1].title = "Weekday Averages"
    /\ dialogs[1].args[3] = 250
    /\ dialogs[1].args[1] = 0
    /\ \E t \in AsMap(historical_data) : t.date > now
    /\ \E t \in AsMap(historical_data) : t.date = now - WindowDays

\* What check_article_count returned for the count `value` and the average
\* of `sample`, against the three rules of the classification.
Rules(particular) ==
    LET n == Len(sample)
        S == Sum(sample)
        under == IF n = 0 THEN value < 0 ELSE 10 * value * n < 8 * S
        above == IF n = 0 THEN value > 0 ELSE value * n > S
        at80 == IF n = 0 THEN value = 0 ELSE 10 * value * n = 8 * S
        atAverage == IF n = 0 THEN value = 0 ELSE value * n = S
        status == outcome.out[1]
    IN  /\ status \in Statuses
        /\ status = "under 80% of the average" <=> under
        /\ status = "above the average" <=> (~under /\ above)
        /\ status = "within 80% of the average" <=> (~under /\ ~above)
        /\ (particular /\ at80) => status = "within 80% of the average"
        /\ (particular /\ atAverage) => status = "within 80% of the average"

\* C6 as stated: the classification is 'under' iff count < 0.8 * average,
\* otherwise 'above' iff count > average, otherwise 'within'; and a count
\* equal to 0.8 * average, or equal to the average, is 'within', for every
\* count and average.
C6_AsStated == outcome.fn = "check_article_count" => Rules(TRUE)

\* C6, amended: the same three rules for every count and average; a count
\* equal to 0.8 * average, or equal to the average, is 'within' when the
\* average is not negative.
C6_Classification == outcome.fn = "check_article_count" => Rules(Sum(sample) >= 0)

\* A count of exactly 80% of a positive average has been classified.
C6_Witness ==
    /\ outcome.fn = "check_article_count"
    /\ Sum(sample) > 0
    /\ 10 * value * Len(sample) = 8 * Sum(sample)
    /\ outcome.out[1] = "within 80% of the average"

Freq(data, v) == Cardinality({i \in 1..Len(data) : data[i] = v})

Range(data) == {data[i] : i \in 1..Len(data)}

MaxFreq(data) == CHOOSE m \in 1..Len(data) :
    (\E v \in Range(data) : Freq(data, v) = m) /\ (\A v \in Range(data) : Freq(data, v) <= m)

\* The most frequent values of a non-empty list.
Tops(data) == {v \in Range(data) : Freq(data, v) = MaxFreq(data)}

\* The place of the m-th occurrence of v.
ReachIndex(data, v, m) ==
    CHOOSE i \in 1..Len(data) :
        data[i] = v /\ Cardinality({j \in 1..i : data[j] = v}) = m

\* Reading the list in input order, the value whose number of occurrences
\* is the first to get to the maximum frequency.
FirstToReach(data) ==
    CHOOSE v \in Tops(data) :
        \A u \in Tops(data) :
            ReachIndex(data, v, MaxFreq(data)) <= ReachIndex(data, u, MaxFreq(data))

\* Of the most frequent values, the one that occurs first in the list.
FirstSeen(data) ==
    CHOOSE v \in Tops(data) :
        \A u \in Tops(data) : ReachIndex(data, v, 1) <= ReachIndex(data, u, 1)

\* The k-th smallest element of a list.
Kth(data, k) ==
    CHOOSE v \in Range(data) :
        /\ Cardinality({i \in 1..Len(data) : data[i] < v}) < k
        /\ k <= Cardinality({i \in 1..Len(data) : data[i] <= v})

\* Four times the first quartile: 0 under four values, else the value at
\* position (n - 1) / 4 of the sorted list, interpolated linearly.
Q1x4(data) ==
    LET pos == Len(data) - 1
        lo == pos \div 4
        r == pos % 4
    IN  IF Len(data) < 4 THEN 0
        ELSE Kth(data, lo + 1) * (4 - r) + (IF r = 0 THEN 0 ELSE Kth(data, lo + 2) * r)

RECURSIVE SqDev(_, _, _)
SqDev(data, n, S) ==
    IF data = <<>> THEN 0
    ELSE (n * Head(data) - S) * (n * Head(data) - S) + SqDev(Tail(data), n, S)

\* The coefficient of variation is above 0.2: at least two values, a
\* positive mean, and sum of squared deviations / (n - 1) above mean^2 / 25
\* (both sides times n^2).
HighCV(data) ==
    LET n == Len(data)
        S == Sum(data)
    IN  n >= 2 /\ S > 0 /\ 25 * SqDev(data, n, S) > (n - 1) * S * S

\* C7: for a non-empty sample exactly one result is reported: with the
\* coefficient of variation above 0.2, 'below the first quartile' iff count <
\* Q1 and 'within the interquartile range' otherwise (Q1 = Q3 = 0 under four
\* values); with it at most 0.2, whether the count matches a most frequent
\* value of the sample.
C7_AnalysisChoice ==
    outcome.fn = "submit_data" =>
        /\ Len(outcome.out) = 1
        /\ LET b == outcome.out[1]
           IN  IF HighCV(sample)
               THEN /\ b.text = IF 4 * value < Q1x4(sample)
                                 THEN "below the first quartile"
                                 ELSE "within the interquartile range"
                    /\ b.args[1] * 4 = Q1x4(sample) * 100
                    /\ Len(sample) < 4 => \A k \in 1..Len(b.args) : b.args[k] = 0
               ELSE /\ b.text \in {"matches the most frequent category",
                                   "does not match the most frequent category"}
                    /\ b.args[1] \in Tops(sample)
                    /\ b.text = "matches the most frequent category" <=> value = b.args[1]

\* A count below the first quartile of a sample of four or more values of
\* high variation, the quartile falling between two of them.
C7_Witness ==
    /\ outcome.fn = "submit_data"
    /\ Len(sample) >= 4
    /\ outcome.out[1].text = "below the first quartile"
    /\ outcome.out[1].args[1] % 100 # 0

\* C9 as stated: the value returned is the first value reaching the maximum
\* frequency, in input order, and matches is true iff count equals it.
C9_AsStated ==
    outcome.fn = "check_frequency_distribution" =>
        /\ outcome.out[1].most_common_count = FirstToReach(sample)
        /\ outcome.out[1].matches <=> value = outcome.out[1].most_common_count

\* C9, amended: the value returned is, of the values of maximum frequency,
\* the one whose first occurrence in the list is earliest, and matches is
\* true iff count equals it.
C9_FirstSeen ==
    outcome.fn = "check_frequency_distribution" =>
        /\ outcome.out[1].most_common_count = FirstSeen(sample)
        /\ outcome.out[1].matches <=> value = outcome.out[1].most_common_count

\* A tie in which the value seen first is not the first to get to the
\* maximum frequency, and the count matches the value returned.
C9_Witness ==
    /\ outcome.fn = "check_frequency_distribution"
    /\ FirstSeen(sample) # FirstToReach(sample)
    /\ outcome.out[1].matches

\* The step is a submission that passed validation (midnight leaves the
\* message boxes of the last handler as they were).
SubmitStep == LastSubmit' /\ now' = now

\* The records of a diary in the window, after the step.
InWindowAfter(d) == {t \in AsMap(historical_data') : t.name = d /\ t.date >= now - WindowDays}

\* The message boxes titled "Result" shown by the step.
ResultsAfter == {k \in 1..Len(dialogs') : dialogs'[k].title = "Result"}

\* C8 as stated: every submission that passes validation produces the
\* weekday average, the classification, the coefficient of variation and
\* either the quartile result or the mode-match result.
C8_AsStated ==
    LastSubmit =>
        /\ summary_label.shown
        /\ summary_label.status \in Statuses
        /\ Len(summary_label.cv) = 1
        /\ \E k \in 1..Len(dialogs) : dialogs[k].title = "Result"

\* C8, amended: every submission that passes validation produces the weekday
\* average and the classification; it produces the coefficient of variation
\* and exactly one of the quartile result and the mode-match result exactly
\* when, with the new count stored, the diary has a record dated on or after
\* today minus 180 days, as it has whenever the submitted date is such a date.
C8_Result ==
    [][SubmitStep =>
          LET date == dialogs'[1].args[1]
              d == dialogs'[1].args[2]
              Q == {t \in InWindowAfter(d) : Weekday(t.date) = Weekday(date)}
          IN  /\ summary_label'.shown
              /\ summary_label'.date = date
              /\ summary_label'.diary = d
              /\ summary_label'.count = dialogs'[1].args[3]
              /\ summary_label'.average =
                    IF Q = {} THEN 0 ELSE Fmt2(Frac(SumCounts(Q), Cardinality(Q)))
              /\ summary_label'.status \in Statuses
              /\ Len(summary_label'.cv) = (IF InWindowAfter(d) = {} THEN 0 ELSE 1)
              /\ Cardinality(ResultsAfter) = (IF InWindowAfter(d) = {} THEN 0 ELSE 1)
              /\ date >= now - WindowDays => InWindowAfter(d) # {}]_vars

\* A submission for a day before the window, of a diary with no record in
\* the window, has shown no coefficient of variation and no result.
C8_Witness ==
    /\ LastSubmit
    /\ summary_label.cv = <<>>
    /\ \A k \in 1..Len(dialogs) : dialogs[k].title # "Result"

\* C10: the count is stored before it is classified: a submission of a count
\* >= 0 for a date on or after today minus 180 days, with no other record of
\* the diary on that weekday in the window, reports the count itself as the
\* average and is classified 'within 80% of the average'.
C10_StoredFirst ==
    [][SubmitStep =>
          LET date == dialogs'[1].args[1]
              d == dialogs'[1].args[2]
              c == dialogs'[1].args[3]
              others == {t \in InWindowAfter(d) :
                            Weekday(t.date) = Weekday(date) /\ t.date # date}
          IN  (c >= 0 /\ date >= now - WindowDays /\ others = {})
                  => /\ summary_label'.average = 100 * c
                     /\ summary_label'.status = "within 80% of the average"]_vars

\* Such a submission, the diary having another record on the same weekday
\* that is older than the window.
C10_Witness ==
    /\ LastSubmit
    /\ summary_label.count >= 0
    /\ summary_label.average = 100 * summary_label.count
    /\ summary_label.status = "within 80% of the average"
    /\ \E t \in AsMap(historical_data) :
          /\ t.name = summary_label.diary
          /\ Weekday(t.date) = Weekday(summary_label.date)
          /\ t.date < now - WindowDays
          /\ t.count # summary_label.count

====
